---- MODULE Spec2Model ----
(***************************************************************************)
(* The outer-approximation iteration controller of MindtPy                 *)
(* (pyomo/contrib/mindtpy/iterate.py): MindtPy_iteration_loop,             *)
(* algorithm_should_terminate and bound_fix.                               *)
(*                                                                         *)
(* The MILP/NLP sub-solvers are opaque services: every result they can     *)
(* return (termination condition, objective bound, variable values) is a   *)
(* nondeterministic choice.  The handlers imported from mip_solve.py and   *)
(* nlp_solve.py are not part of the two source files; their effect on      *)
(* solve_data is taken from the design document.                           *)
(*                                                                         *)
(* The regularization test of the interior-point solver                    *)
(* (pyomo/contrib/interior_point/tests/test_reg.py): the test is source,   *)
(* the factorize it calls is taken from the design document.               *)
(***************************************************************************)
EXTENDS Integers, Sequences, FiniteSets

\* ------------------------------------------------------------------ bounds
\* objective bounds and solver objective values range over 0..MaxBound
MaxBound == 1
\* largest iteration_limit tried
MaxIterLimit == 3
\* largest time_limit tried (the clock is observed in 0..time_limit)
MaxTime == 1

\* the objective values a sub-solver can report
Vals == 0..MaxBound
\* the values bound_tolerance is tried with
Tolerances == {0, 1}
\* stand-ins for float('inf') and float('-inf'): no finite bound plus a
\* tolerance reaches them
PosInf == MaxBound + 2
NegInf == -PosInf
\* values (in tenths) a master solution gives its integer variable: 0.4 and
\* 0.6 (no exact halves, where int(round(.)) depends on the Python version)
MipVals == {4, 6}
\* the values time_limit is tried with
TimeLimits == 1..MaxTime
\* config.zero_tolerance is kept in units of 1E-5: bound_fix writes 1E-4
ZeroToleranceBoundFix == 10

\* most constraints of either kind the interior-point interface reports
MaxCons == 1
\* most regularized factorizations after the one with coefficient zero
MaxRegIter == 3
\* regularization coefficients are kept in units of 1E-4: the first nonzero
\* coefficient, which the regularization test expects back
BaseRegCoef == 1
\* the ratio of the geometric sequence of coefficients
RegFactor == 100

VARIABLES
    pc,                     \* position of the controller
    config,                 \* the configuration object
    lists,                  \* heap of Python list objects (config.mip_solver_args values)
    mip_args,               \* bound_fix's local dict: key -> list reference
    sense,                  \* main_objective.sense
    LB, UB,                 \* solve_data.LB, solve_data.UB
    LB_progress, UB_progress,
    mip_iter, mip_subiter,
    mip,                    \* solve_data.mip: its variables (is_integer, value in
                            \* tenths); the continuous one is never read
    prev_int_sol, curr_int_sol,
    termination_condition,  \* solve_data.results.solver.termination_condition
    last_iter_cuts,         \* local of MindtPy_iteration_loop; "unbound" before assignment
    master_mip_results,     \* termination condition of the loop's last master solve
    fixed_nlp_result,       \* termination condition of the last NLP subproblem solve
    masteropt_bound,        \* bound_fix: <<bound reported by the re-solved master>>
    integer_cuts,           \* MindtPy_linear_cuts.integer_cuts: active flag of each cut
    elapsed,                \* get_main_elapsed_time(solve_data.timing)
    mip_iter0,              \* mip_iter when the loop was entered
    calls                   \* how often each external service / callback was called

VARIABLES
    ip_pc,                  \* position of the regularization test
    n_eq_constraints,       \* interface.n_eq_constraints()
    n_ineq_constraints,     \* interface.n_ineq_constraints()
    reg_iter,               \* regularized factorizations made by factorize
    reg_coef,               \* the coefficient factorize last tried, and returns
    inertia,                \* linear_solver.get_inertia(): of the last factorization
    test_result             \* outcome of the test's assertions

vars == <<pc, config, lists, mip_args, sense, LB, UB, LB_progress, UB_progress,
          mip_iter, mip_subiter, mip, prev_int_sol, curr_int_sol,
          termination_condition, last_iter_cuts, master_mip_results,
          fixed_nlp_result, masteropt_bound, integer_cuts, elapsed,
          mip_iter0, calls,
          ip_pc, n_eq_constraints, n_ineq_constraints, reg_iter, reg_coef,
          inertia, test_result>>

ip_vars == <<ip_pc, n_eq_constraints, n_ineq_constraints, reg_iter, reg_coef,
             inertia, test_result>>

mindtpy_vars == <<pc, config, lists, mip_args, sense, LB, UB, LB_progress,
                  UB_progress, mip_iter, mip_subiter, mip, prev_int_sol,
                  curr_int_sol, termination_condition, last_iter_cuts,
                  master_mip_results, fixed_nlp_result, masteropt_bound,
                  integer_cuts,
                  elapsed, mip_iter0, calls>>

solve_data_vars == <<LB, UB, LB_progress, UB_progress, mip_iter, mip_subiter, mip,
                     prev_int_sol, curr_int_sol, termination_condition,
                     integer_cuts>>

Max2(a, b) == IF a >= b THEN a ELSE b
Min2(a, b) == IF a <= b THEN a ELSE b

RECURSIVE MaxOf(_)
MaxOf(s) == IF Len(s) = 1 THEN s[1] ELSE Max2(s[1], MaxOf(Tail(s)))

RECURSIVE MinOf(_)
MinOf(s) == IF Len(s) = 1 THEN s[1] ELSE Min2(s[1], MinOf(Tail(s)))

\* Python's s[:-1]
AllButLast(s) == IF Len(s) = 0 THEN s ELSE SubSeq(s, 1, Len(s) - 1)

Last(s) == s[Len(s)]

EmptyDict == [k \in {} |-> 0]

Bump(name) == [calls EXCEPT ![name] = @ + 1]

\* --------------------------------------------------------------- the state
ErrorPcs == {"NotImplementedError", "UnboundLocalError", "KeyError"}
FinalPcs == {"done"} \cup ErrorPcs

\* the configurations of the control-flow checks: a supported and an
\* unsupported strategy, solver options left empty
Configs ==
    [iteration_limit : 0..MaxIterLimit,
     time_limit      : TimeLimits,
     bound_tolerance : Tolerances,
     cycling_check   : BOOLEAN,
     strategy        : {"OA", "ECP"},
     add_nogood_cuts : BOOLEAN,
     single_tree     : BOOLEAN,
     mip_solver      : {"glpk"},
     mip_solver_args : {EmptyDict},
     zero_tolerance  : {1}]

\* the configurations of the solver-option checks: both supported
\* strategies, every combination of mip_solver and of mip_solver_args with
\* and without an 'add_options' list
SolverConfigs ==
    [iteration_limit : 0..MaxIterLimit,
     time_limit      : {MaxTime},
     bound_tolerance : {0},
     cycling_check   : {TRUE},
     strategy        : {"OA", "GOA"},
     add_nogood_cuts : BOOLEAN,
     single_tree     : {FALSE},
     mip_solver      : {"gams", "glpk"},
     mip_solver_args : {EmptyDict, [k \in {"add_options"} |-> 1]},
     zero_tolerance  : {1}]

\* the bounds the initialization leaves: none yet, or bounds that already meet
InitialBounds == {<<NegInf, PosInf>>, <<0, 0>>}

\* get_inertia before any factorization has no value
NoInertia == [n_pos |-> -1, n_neg |-> -1, n_null |-> -1]

\* the interior-point solver not in use
InteriorPointIdle ==
    /\ ip_pc = "idle"
    /\ n_eq_constraints = 0
    /\ n_ineq_constraints = 0
    /\ reg_iter = 0
    /\ reg_coef = 0
    /\ inertia = NoInertia
    /\ test_result = "none"

\* solve_data and the configuration when MindtPy_iteration_loop is entered
InitWith(configs) ==
    /\ InteriorPointIdle
    /\ pc = "while"
    /\ config \in configs
    /\ lists = IF "add_options" \in DOMAIN config.mip_solver_args
               THEN << <<>> >> ELSE <<>>
    /\ mip_args = EmptyDict
    /\ sense \in {"minimize", "maximize"}
    /\ \E b \in InitialBounds : LB = b[1] /\ UB = b[2]
    /\ LB_progress = <<LB>>
    /\ UB_progress = <<UB>>
    /\ mip_iter \in {0, 1}
    /\ mip_iter0 = mip_iter
    /\ mip_subiter = 0
    /\ mip = <<[is_integer |-> TRUE, value |-> 4],
               [is_integer |-> FALSE, value |-> 25]>>
    /\ prev_int_sol = <<>>
    /\ curr_int_sol = <<>>
    /\ termination_condition = "None"
    /\ last_iter_cuts = "unbound"
    /\ master_mip_results = "unbound"
    /\ fixed_nlp_result = "unbound"
    /\ masteropt_bound = <<>>
    /\ integer_cuts = <<>>
    /\ elapsed = 0
    /\ calls = [n \in {"solve_OA_master", "call_after_master_solve",
                       "solve_NLP_subproblem", "call_after_subproblem_solve",
                       "masteropt_solve", "deactivate"} |-> 0]

Init == InitWith(Configs)

InitSolver == InitWith(SolverConfigs)

\* ------------------------------------------------ algorithm_should_terminate
\* int(round(var.value)) of a value given in tenths (no exact halves occur)
RoundToInt(v) == (v + 5) \div 10

RECURSIVE IntegerSolution(_)
\* the list temp: the rounded value of every integer variable, in order
IntegerSolution(vs) ==
    IF Len(vs) = 0 THEN <<>>
    ELSE IF vs[1].is_integer
         THEN <<RoundToInt(vs[1].value)>> \o IntegerSolution(Tail(vs))
         ELSE IntegerSolution(Tail(vs))

BoundsConverged == LB + config.bound_tolerance >= UB

IterationLimitReached == mip_iter >= config.iteration_limit

TimeLimitReached == elapsed >= config.time_limit

Verdict(ret, tc, curr, prev) ==
    [ret |-> ret, termination_condition |-> tc,
     curr_int_sol |-> curr, prev_int_sol |-> prev]

\* algorithm_should_terminate with the iteration limit tested before the bounds
algorithm_should_terminate_limit_first(check_cycling) ==
    IF IterationLimitReached
    THEN Verdict(TRUE, "maxIterations", curr_int_sol, prev_int_sol)
    ELSE IF BoundsConverged
    THEN Verdict(TRUE, "optimal", curr_int_sol, prev_int_sol)
    ELSE IF TimeLimitReached
    THEN Verdict(TRUE, "maxTimeLimit", curr_int_sol, prev_int_sol)
    ELSE IF config.cycling_check /\ mip_iter >= 1 /\ check_cycling
    THEN LET temp == IntegerSolution(mip) IN
         IF temp = prev_int_sol
         THEN Verdict(TRUE, "feasible", temp, prev_int_sol)
         ELSE Verdict(FALSE, termination_condition, temp, temp)
    ELSE Verdict(FALSE, termination_condition, curr_int_sol, prev_int_sol)

\* algorithm_should_terminate without the test of the iteration limit
algorithm_should_terminate_no_limit(check_cycling) ==
    IF BoundsConverged
    THEN Verdict(TRUE, "optimal", curr_int_sol, prev_int_sol)
    ELSE IF TimeLimitReached
    THEN Verdict(TRUE, "maxTimeLimit", curr_int_sol, prev_int_sol)
    ELSE IF config.cycling_check /\ mip_iter >= 1 /\ check_cycling
    THEN LET temp == IntegerSolution(mip) IN
         IF temp = prev_int_sol
         THEN Verdict(TRUE, "feasible", temp, prev_int_sol)
         ELSE Verdict(FALSE, termination_condition, temp, temp)
    ELSE Verdict(FALSE, termination_condition, curr_int_sol, prev_int_sol)

\* algorithm_should_terminate that records the integer solution but never
\* stops on a repeated one
algorithm_should_terminate_no_cycle_stop(check_cycling) ==
    IF BoundsConverged
    THEN Verdict(TRUE, "optimal", curr_int_sol, prev_int_sol)
    ELSE IF IterationLimitReached
    THEN Verdict(TRUE, "maxIterations", curr_int_sol, prev_int_sol)
    ELSE IF TimeLimitReached
    THEN Verdict(TRUE, "maxTimeLimit", curr_int_sol, prev_int_sol)
    ELSE IF config.cycling_check /\ mip_iter >= 1 /\ check_cycling
    THEN LET temp == IntegerSolution(mip) IN
         Verdict(FALSE, termination_condition, temp, temp)
    ELSE Verdict(FALSE, termination_condition, curr_int_sol, prev_int_sol)

\* The value returned and what the call leaves in solve_data.
algorithm_should_terminate(check_cycling) ==
    IF BoundsConverged
    THEN Verdict(TRUE, "optimal", curr_int_sol, prev_int_sol)
    ELSE IF IterationLimitReached
    THEN Verdict(TRUE, "maxIterations", curr_int_sol, prev_int_sol)
    ELSE IF TimeLimitReached
    THEN Verdict(TRUE, "maxTimeLimit", curr_int_sol, prev_int_sol)
    ELSE IF config.cycling_check /\ mip_iter >= 1 /\ check_cycling
    THEN LET temp == IntegerSolution(mip) IN
         IF temp = prev_int_sol
         THEN Verdict(TRUE, "feasible", temp, prev_int_sol)
         ELSE Verdict(FALSE, termination_condition, temp, temp)
    ELSE Verdict(FALSE, termination_condition, curr_int_sol, prev_int_sol)

\* ------------------------------ the sub-solvers and the result handlers
\* solve_OA_master: one more master iteration
solve_OA_master ==
    /\ mip_iter' = mip_iter + 1
    /\ calls' = Bump("solve_OA_master")

\* handle_master_mip_optimal: the master's objective improves the optimistic
\* bound, which is recorded
handle_master_mip_optimal(obj) ==
    IF sense = "minimize"
    THEN /\ LB' = Max2(obj, LB)
         /\ LB_progress' = Append(LB_progress, Max2(obj, LB))
         /\ UNCHANGED <<UB, UB_progress>>
    ELSE /\ UB' = Min2(obj, UB)
         /\ UB_progress' = Append(UB_progress, Min2(obj, UB))
         /\ UNCHANGED <<LB, LB_progress>>

\* handle_master_mip_infeasible: the solve is reported infeasible
handle_master_mip_infeasible == termination_condition' = "infeasible"

\* a no-good cut on the visited integer assignment, when the policy is active
add_nogood_cut ==
    integer_cuts' = IF config.add_nogood_cuts
                    THEN Append(integer_cuts, TRUE) ELSE integer_cuts

\* handle_NLP_subproblem_optimal: the subproblem's objective improves the
\* pessimistic bound, which is recorded; the point is cut off
handle_NLP_subproblem_optimal(obj) ==
    /\ IF sense = "minimize"
       THEN /\ UB' = Min2(obj, UB)
            /\ UB_progress' = Append(UB_progress, Min2(obj, UB))
            /\ UNCHANGED <<LB, LB_progress>>
       ELSE /\ LB' = Max2(obj, LB)
            /\ LB_progress' = Append(LB_progress, Max2(obj, LB))
            /\ UNCHANGED <<UB, UB_progress>>
    /\ add_nogood_cut

\* handle_NLP_subproblem_infeasible: feasibility cut; the point is cut off
handle_NLP_subproblem_infeasible ==
    /\ add_nogood_cut
    /\ UNCHANGED <<LB, UB, LB_progress, UB_progress>>

\* handle_NLP_subproblem_other_termination: diagnostics only
handle_NLP_subproblem_other_termination ==
    UNCHANGED <<LB, UB, LB_progress, UB_progress, integer_cuts>>

\* lines 56-64 and 186-194: solve_NLP_subproblem and the dispatch on the
\* termination condition it returns
solve_NLP_subproblem(cond) ==
    /\ calls' = Bump("solve_NLP_subproblem")
    /\ fixed_nlp_result' = cond
    /\ CASE cond \in {"optimal", "locallyOptimal"} ->
              \E obj \in Vals : handle_NLP_subproblem_optimal(obj)
         [] cond = "infeasible" -> handle_NLP_subproblem_infeasible
         [] OTHER -> handle_NLP_subproblem_other_termination

\* the termination conditions a sub-solver can return
SolverConditions == {"optimal", "locallyOptimal", "infeasible", "other"}

\* ------------------------------------------------- MindtPy_iteration_loop
\* line 20: the while condition
WhileTest ==
    /\ pc = "while"
    /\ pc' = IF mip_iter < config.iteration_limit
             THEN "pre_check" ELSE "after_loop"
    /\ UNCHANGED <<master_mip_results, config, lists, mip_args, sense,
                   solve_data_vars, last_iter_cuts, elapsed, mip_iter0,
                   ip_vars, masteropt_bound, fixed_nlp_result,
                   calls>>

\* the first check followed by a master solve whatever the strategy
PreCheck_any_strategy ==
    /\ pc = "pre_check"
    /\ LET v == algorithm_should_terminate(FALSE) IN
       /\ termination_condition' = v.termination_condition
       /\ curr_int_sol' = v.curr_int_sol
       /\ prev_int_sol' = v.prev_int_sol
       /\ IF v.ret
          THEN /\ last_iter_cuts' = "True"
               /\ pc' = "after_loop"
               /\ UNCHANGED mip_subiter
          ELSE /\ mip_subiter' = 0
               /\ pc' = "solve_master"
               /\ UNCHANGED last_iter_cuts
    /\ UNCHANGED <<master_mip_results, config, lists, mip_args, sense, LB,
                   UB, LB_progress, UB_progress, mip_iter, mip,
                   integer_cuts, elapsed, mip_iter0,
                   ip_vars, masteropt_bound, fixed_nlp_result, calls>>

\* lines 26-32, 46-47: first termination check, then the strategy dispatch
PreCheck ==
    /\ pc = "pre_check"
    /\ LET v == algorithm_should_terminate(FALSE) IN
       /\ termination_condition' = v.termination_condition
       /\ curr_int_sol' = v.curr_int_sol
       /\ prev_int_sol' = v.prev_int_sol
       /\ IF v.ret
          THEN /\ last_iter_cuts' = "True"
               /\ pc' = "after_loop"
               /\ UNCHANGED mip_subiter
          ELSE /\ mip_subiter' = 0
               /\ pc' = IF config.strategy \in {"OA", "GOA"}
                        THEN "solve_master" ELSE "NotImplementedError"
               /\ UNCHANGED last_iter_cuts
    /\ UNCHANGED <<master_mip_results, config, lists, mip_args, sense, LB,
                   UB, LB_progress, UB_progress, mip_iter, mip,
                   integer_cuts, elapsed, mip_iter0,
                   ip_vars, masteropt_bound, fixed_nlp_result, calls>>

\* lines 33-36: the master is solved to optimality
MasterOptimal ==
    /\ pc = "solve_master"
    /\ solve_OA_master
    /\ master_mip_results' = "optimal"
    /\ \E obj \in Vals, x \in MipVals :
          /\ mip' = <<[is_integer |-> TRUE, value |-> x],
                      [is_integer |-> FALSE, value |-> 25]>>
          /\ handle_master_mip_optimal(obj)
    /\ pc' = "master_callback"
    /\ UNCHANGED <<config, lists, mip_args, sense, mip_subiter,
                   prev_int_sol, curr_int_sol, termination_condition,
                   last_iter_cuts, integer_cuts, elapsed, mip_iter0,
                   ip_vars, masteropt_bound, fixed_nlp_result>>

\* the infeasible master leaving the loop with last_iter_cuts = False
MasterInfeasible_flag_false ==
    /\ pc = "solve_master"
    /\ solve_OA_master
    /\ master_mip_results' = "infeasible"
    /\ handle_master_mip_infeasible
    /\ last_iter_cuts' = "False"
    /\ pc' = "after_loop"
    /\ UNCHANGED <<config, lists, mip_args, sense, LB, UB, LB_progress,
                   UB_progress, mip_subiter, mip, prev_int_sol,
                   curr_int_sol, integer_cuts, elapsed, mip_iter0,
                   ip_vars, masteropt_bound, fixed_nlp_result>>

\* lines 33-34, 37-40: the master is infeasible
MasterInfeasible ==
    /\ pc = "solve_master"
    /\ solve_OA_master
    /\ master_mip_results' = "infeasible"
    /\ handle_master_mip_infeasible
    /\ last_iter_cuts' = "True"
    /\ pc' = "after_loop"
    /\ UNCHANGED <<config, lists, mip_args, sense, LB, UB, LB_progress,
                   UB_progress, mip_subiter, mip, prev_int_sol,
                   curr_int_sol, integer_cuts, elapsed, mip_iter0,
                   ip_vars, masteropt_bound, fixed_nlp_result>>

\* another termination condition of the master going on without the callback
MasterOther_skips_callback ==
    /\ pc = "solve_master"
    /\ solve_OA_master
    /\ master_mip_results' = "other"
    /\ pc' = "post_check"
    /\ UNCHANGED <<config, lists, mip_args, sense, LB, UB, LB_progress,
                   UB_progress, mip_subiter, mip, prev_int_sol,
                   curr_int_sol, termination_condition, last_iter_cuts,
                   integer_cuts, elapsed, mip_iter0,
                   ip_vars, masteropt_bound, fixed_nlp_result>>

\* another termination condition of the master answered by solving the
\* master again at once, the loop's tests not consulted
MasterOther_retry ==
    /\ pc = "solve_master"
    /\ solve_OA_master
    /\ master_mip_results' = "other"
    /\ pc' = "solve_master"
    /\ UNCHANGED <<config, lists, mip_args, sense, LB, UB, LB_progress,
                   UB_progress, mip_subiter, mip, prev_int_sol,
                   curr_int_sol, termination_condition, last_iter_cuts,
                   integer_cuts, elapsed, mip_iter0,
                   ip_vars, masteropt_bound, fixed_nlp_result>>

\* another termination condition of the master treated as the infeasible one
MasterOther_stops ==
    /\ pc = "solve_master"
    /\ solve_OA_master
    /\ master_mip_results' = "other"
    /\ last_iter_cuts' = "True"
    /\ pc' = "after_loop"
    /\ UNCHANGED <<config, lists, mip_args, sense, LB, UB, LB_progress,
                   UB_progress, mip_subiter, mip, prev_int_sol,
                   curr_int_sol, termination_condition, integer_cuts,
                   elapsed, mip_iter0,
                   ip_vars, masteropt_bound, fixed_nlp_result>>

\* lines 33-34, 41-43: any other termination condition of the master
MasterOther ==
    /\ pc = "solve_master"
    /\ solve_OA_master
    /\ master_mip_results' = "other"
    /\ pc' = "master_callback"
    /\ UNCHANGED <<config, lists, mip_args, sense, LB, UB, LB_progress,
                   UB_progress, mip_subiter, mip, prev_int_sol,
                   curr_int_sol, termination_condition, last_iter_cuts,
                   integer_cuts, elapsed, mip_iter0,
                   ip_vars, masteropt_bound, fixed_nlp_result>>

\* line 45
CallAfterMasterSolve ==
    /\ pc = "master_callback"
    /\ calls' = Bump("call_after_master_solve")
    /\ pc' = "post_check"
    /\ UNCHANGED <<master_mip_results, config, lists, mip_args, sense,
                   solve_data_vars, last_iter_cuts, elapsed, mip_iter0,
                   ip_vars, masteropt_bound, fixed_nlp_result>>

\* the second check followed by the subproblem solve whatever single_tree is
PostCheck_always_subproblem ==
    /\ pc = "post_check"
    /\ LET v == algorithm_should_terminate(TRUE) IN
       /\ termination_condition' = v.termination_condition
       /\ curr_int_sol' = v.curr_int_sol
       /\ prev_int_sol' = v.prev_int_sol
       /\ IF v.ret
          THEN /\ last_iter_cuts' = "False"
               /\ pc' = "after_loop"
          ELSE /\ pc' = "solve_nlp"
               /\ UNCHANGED last_iter_cuts
    /\ UNCHANGED <<master_mip_results, config, lists, mip_args, sense, LB,
                   UB, LB_progress, UB_progress, mip_iter, mip_subiter, mip,
                   integer_cuts, elapsed, mip_iter0, ip_vars, masteropt_bound,
                   fixed_nlp_result, calls>>

\* lines 49-53: second termination check, then the single_tree test
PostCheck ==
    /\ pc = "post_check"
    /\ LET v == algorithm_should_terminate(TRUE) IN
       /\ termination_condition' = v.termination_condition
       /\ curr_int_sol' = v.curr_int_sol
       /\ prev_int_sol' = v.prev_int_sol
       /\ IF v.ret
          THEN /\ last_iter_cuts' = "False"
               /\ pc' = "after_loop"
          ELSE /\ pc' = IF config.single_tree = FALSE
                        THEN "solve_nlp" ELSE "while"
               /\ UNCHANGED last_iter_cuts
    /\ UNCHANGED <<master_mip_results, config, lists, mip_args, sense, LB,
                   UB, LB_progress, UB_progress, mip_iter, mip_subiter, mip,
                   integer_cuts, elapsed, mip_iter0,
                   ip_vars, masteropt_bound, fixed_nlp_result, calls>>

\* lines 56-64
SolveSubproblem ==
    /\ pc = "solve_nlp"
    /\ \E cond \in SolverConditions : solve_NLP_subproblem(cond)
    /\ pc' = "nlp_callback"
    /\ UNCHANGED <<master_mip_results, config, lists, mip_args, sense,
                   mip_iter, mip_subiter, mip, prev_int_sol, curr_int_sol,
                   termination_condition, last_iter_cuts, elapsed,
                   mip_iter0, ip_vars, masteropt_bound>>

\* line 66
CallAfterSubproblemSolve ==
    /\ pc = "nlp_callback"
    /\ calls' = Bump("call_after_subproblem_solve")
    /\ pc' = "while"
    /\ UNCHANGED <<master_mip_results, config, lists, mip_args, sense,
                   solve_data_vars, last_iter_cuts, elapsed, mip_iter0,
                   ip_vars, masteropt_bound, fixed_nlp_result>>

\* bound_fix called only when the last iteration contributed a cut
AfterLoop_only_after_cut ==
    /\ pc = "after_loop"
    /\ IF ~config.add_nogood_cuts \/ last_iter_cuts = "False"
       THEN /\ pc' = "done"
            /\ UNCHANGED config
       ELSE IF last_iter_cuts = "unbound"
       THEN /\ pc' = "UnboundLocalError"
            /\ UNCHANGED config
       ELSE /\ config' = [config EXCEPT !.zero_tolerance = ZeroToleranceBoundFix]
            /\ pc' = "bound_fix_master"
    /\ UNCHANGED <<master_mip_results, lists, mip_args, sense,
                   solve_data_vars, last_iter_cuts, elapsed, mip_iter0,
                   ip_vars, masteropt_bound, fixed_nlp_result,
                   calls>>

\* lines 105-106 and 181-185: after the loop; the call of bound_fix reads
\* last_iter_cuts, bound_fix writes config.zero_tolerance and tests the flag
AfterLoop ==
    /\ pc = "after_loop"
    /\ IF ~config.add_nogood_cuts
       THEN /\ pc' = "done"
            /\ UNCHANGED config
       ELSE IF last_iter_cuts = "unbound"
       THEN /\ pc' = "UnboundLocalError"
            /\ UNCHANGED config
       ELSE /\ config' = [config EXCEPT !.zero_tolerance = ZeroToleranceBoundFix]
            /\ pc' = IF last_iter_cuts = "False" THEN "bound_fix_nlp"
                                               ELSE "bound_fix_master"
    /\ UNCHANGED <<master_mip_results, lists, mip_args, sense,
                   solve_data_vars, last_iter_cuts, elapsed, mip_iter0,
                   ip_vars, masteropt_bound, fixed_nlp_result,
                   calls>>

\* ---------------------------------------------------------------- bound_fix
\* lines 186-194
BoundFixSubproblem ==
    /\ pc = "bound_fix_nlp"
    /\ \E cond \in SolverConditions : solve_NLP_subproblem(cond)
    /\ pc' = "bound_fix_master"
    /\ UNCHANGED <<master_mip_results, config, lists, mip_args, sense,
                   mip_iter, mip_subiter, mip, prev_int_sol, curr_int_sol,
                   termination_condition, last_iter_cuts, elapsed,
                   mip_iter0, ip_vars, masteropt_bound>>

\* lines 196-199 when there is no integer cut: integer_cuts[0] does not exist
BoundFixNoCut ==
    /\ pc = "bound_fix_master"
    /\ Len(integer_cuts) = 0
    /\ pc' = "KeyError"
    /\ UNCHANGED <<master_mip_results, config, lists, mip_args, sense,
                   solve_data_vars, last_iter_cuts, elapsed, mip_iter0,
                   ip_vars, masteropt_bound, fixed_nlp_result,
                   calls>>

\* lines 205-208: mip_args = dict(config.mip_solver_args) is a shallow copy;
\* for gams the option is appended to the list found under 'add_options',
\* or to a new list when the key is absent
MipArgs ==
    IF config.mip_solver # "gams"
    THEN [args |-> config.mip_solver_args, lists |-> lists]
    ELSE IF "add_options" \in DOMAIN config.mip_solver_args
    THEN LET r == config.mip_solver_args["add_options"] IN
         [args  |-> config.mip_solver_args,
          lists |-> [lists EXCEPT ![r] = Append(@, "option optcr=0.0;")]]
    ELSE [args  |-> [k \in {"add_options"} |-> Len(lists) + 1],
          lists |-> Append(lists, <<"option optcr=0.0;">>)]

\* the corrected bound taken from the re-solved master alone, the recorded
\* history forgotten
CorrectedLB_no_history(lower_bound) == lower_bound

\* the optimistic bound after the re-solve (lines 214-221)
CorrectedLB(lower_bound) == MaxOf(<<lower_bound>> \o AllButLast(LB_progress))

\* the corrected bound taken over the whole recorded history, its last entry
\* included
CorrectedUB_keeps_last(upper_bound) == MinOf(<<upper_bound>> \o UB_progress)

CorrectedUB(upper_bound) == MinOf(<<upper_bound>> \o AllButLast(UB_progress))

\* bound_fix recording optimal whether the corrected bounds meet or not
BoundFixMaster_always_optimal ==
    /\ pc = "bound_fix_master"
    /\ Len(integer_cuts) > 0
    /\ integer_cuts' = [integer_cuts EXCEPT ![Len(integer_cuts)] = FALSE]
    /\ mip_args' = MipArgs.args
    /\ lists' = MipArgs.lists
    /\ calls' = [calls EXCEPT !["deactivate"] = @ + 1,
                              !["masteropt_solve"] = @ + 1]
    /\ \E bound \in Vals :
          /\ masteropt_bound' = <<bound>>
          /\ IF sense = "minimize"
             THEN /\ LB' = CorrectedLB(bound)
                  /\ LB_progress' = Append(LB_progress, CorrectedLB(bound))
                  /\ UNCHANGED <<UB, UB_progress>>
             ELSE /\ UB' = CorrectedUB(bound)
                  /\ UB_progress' = Append(UB_progress, CorrectedUB(bound))
                  /\ UNCHANGED <<LB, LB_progress>>
          /\ termination_condition' = "optimal"
    /\ pc' = "done"
    /\ UNCHANGED <<master_mip_results, config, sense, mip_iter, mip_subiter,
                   mip, prev_int_sol, curr_int_sol, last_iter_cuts, elapsed,
                   mip_iter0, ip_vars, fixed_nlp_result>>

\* lines 196-225: deactivate the last integer cut, re-solve the master,
\* correct the optimistic bound, check bound convergence
BoundFixMaster ==
    /\ pc = "bound_fix_master"
    /\ Len(integer_cuts) > 0
    /\ integer_cuts' = [integer_cuts EXCEPT ![Len(integer_cuts)] = FALSE]
    /\ mip_args' = MipArgs.args
    /\ lists' = MipArgs.lists
    /\ calls' = [calls EXCEPT !["deactivate"] = @ + 1,
                              !["masteropt_solve"] = @ + 1]
    /\ \E bound \in Vals :
          /\ masteropt_bound' = <<bound>>
          /\ IF sense = "minimize"
             THEN /\ LB' = CorrectedLB(bound)
                  /\ LB_progress' = Append(LB_progress, CorrectedLB(bound))
                  /\ UNCHANGED <<UB, UB_progress>>
             ELSE /\ UB' = CorrectedUB(bound)
                  /\ UB_progress' = Append(UB_progress, CorrectedUB(bound))
                  /\ UNCHANGED <<LB, LB_progress>>
          /\ termination_condition' =
                IF LB' + config.bound_tolerance >= UB'
                THEN "optimal" ELSE termination_condition
    /\ pc' = "done"
    /\ UNCHANGED <<master_mip_results, config, sense, mip_iter, mip_subiter,
                   mip, prev_int_sol, curr_int_sol, last_iter_cuts, elapsed,
                   mip_iter0, ip_vars, fixed_nlp_result>>

\* -------------------------------------------------------------- environment
\* the wall clock moves while the solve runs; it is read only by the two
\* termination checks, and only compared with time_limit: it is advanced
\* where they are about to read it, and not beyond time_limit
Tick ==
    /\ pc \in {"pre_check", "post_check"}
    /\ elapsed < config.time_limit
    /\ elapsed' = elapsed + 1
    /\ UNCHANGED <<master_mip_results, pc, config, lists, mip_args, sense,
                   solve_data_vars, last_iter_cuts, mip_iter0,
                   ip_vars, masteropt_bound, fixed_nlp_result, calls>>

Controller ==
    \/ WhileTest
    \/ PreCheck
    \/ MasterOptimal
    \/ MasterInfeasible
    \/ MasterOther
    \/ CallAfterMasterSolve
    \/ PostCheck
    \/ SolveSubproblem
    \/ CallAfterSubproblemSolve
    \/ AfterLoop
    \/ BoundFixSubproblem
    \/ BoundFixNoCut
    \/ BoundFixMaster

Next == Controller \/ Tick

Spec == Init /\ [][Next]_vars

\* the controller is a running program: it takes its next step
FairSpec == Spec /\ WF_vars(Controller)

SolverSpec == InitSolver /\ [][Next]_vars

\* ------------------------------------------- the regularization test (KKT)
\* the inertias a linear solver can report for a factorized matrix
Inertias ==
    [n_pos : 0..1, n_neg : 0..(2 * MaxCons), n_null : 0..1]

\* the negative eigenvalues wanted, counted over the equalities alone
DesiredNNegEvals_eq_only == n_eq_constraints

\* test_reg.py lines 66-67
DesiredNNegEvals == n_eq_constraints + n_ineq_constraints

\* the expected signature of the KKT matrix
InertiaCorrect(i) == i.n_neg = DesiredNNegEvals /\ i.n_null = 0

\* the coefficients tried after zero: BaseRegCoef, then each RegFactor times
\* the one before
NextRegCoef(coef) == IF coef = 0 THEN BaseRegCoef ELSE coef * RegFactor

\* test_reg.py lines 52-61: the interface of the model, the KKT matrix
\* before any iteration, and the call of factorize, whose first
\* factorization is made without regularization
FactorizeUnregularized ==
    /\ ip_pc = "factorize"
    /\ reg_iter' = 0
    /\ reg_coef' = 0
    /\ inertia' \in Inertias
    /\ ip_pc' = "check_inertia"
    /\ UNCHANGED <<mindtpy_vars, n_eq_constraints, n_ineq_constraints,
                   test_result>>

\* factorize: the reported inertia decides between returning the
\* coefficient, another regularized factorization, and giving up
CheckInertia ==
    /\ ip_pc = "check_inertia"
    /\ ip_pc' = IF InertiaCorrect(inertia) THEN "returned"
                ELSE IF reg_iter >= MaxRegIter THEN "RegularizationFailure"
                ELSE "regularize"
    /\ UNCHANGED <<mindtpy_vars, n_eq_constraints, n_ineq_constraints,
                   reg_iter, reg_coef, inertia, test_result>>

\* factorize: the next coefficient of the sequence is applied and the
\* matrix factorized again
Regularize ==
    /\ ip_pc = "regularize"
    /\ reg_iter' = reg_iter + 1
    /\ reg_coef' = NextRegCoef(reg_coef)
    /\ inertia' \in Inertias
    /\ ip_pc' = "check_inertia"
    /\ UNCHANGED <<mindtpy_vars, n_eq_constraints, n_ineq_constraints,
                   test_result>>

\* test_reg.py lines 63-72: the assertions on the returned coefficient and on
\* the linear solver's inertia
TestAssertions ==
    /\ ip_pc = "returned"
    /\ test_result' = IF /\ reg_coef = BaseRegCoef
                         /\ inertia.n_null = 0
                         /\ inertia.n_neg = DesiredNNegEvals
                      THEN "pass" ELSE "fail"
    /\ ip_pc' = "tested"
    /\ UNCHANGED <<mindtpy_vars, n_eq_constraints, n_ineq_constraints,
                   reg_iter, reg_coef, inertia>>

\* the iteration controller not in use
ControllerIdle ==
    /\ pc = "done"
    /\ config = CHOOSE c \in Configs : c.iteration_limit = 0
    /\ lists = <<>>
    /\ mip_args = EmptyDict
    /\ sense = "minimize"
    /\ LB = NegInf /\ UB = PosInf
    /\ LB_progress = <<LB>>
    /\ UB_progress = <<UB>>
    /\ mip_iter = 0
    /\ mip_iter0 = 0
    /\ mip_subiter = 0
    /\ mip = <<>>
    /\ prev_int_sol = <<>>
    /\ curr_int_sol = <<>>
    /\ termination_condition = "None"
    /\ last_iter_cuts = "unbound"
    /\ master_mip_results = "unbound"
    /\ fixed_nlp_result = "unbound"
    /\ masteropt_bound = <<>>
    /\ integer_cuts = <<>>
    /\ elapsed = 0
    /\ calls = [n \in {"solve_OA_master", "call_after_master_solve",
                       "solve_NLP_subproblem", "call_after_subproblem_solve",
                       "masteropt_solve", "deactivate"} |-> 0]

\* the regularization test started on a model with any number of constraints
InitReg ==
    /\ ControllerIdle
    /\ ip_pc = "factorize"
    /\ n_eq_constraints \in 0..MaxCons
    /\ n_ineq_constraints \in 0..MaxCons
    /\ reg_iter = 0
    /\ reg_coef = 0
    /\ inertia = NoInertia
    /\ test_result = "none"

NextReg ==
    \/ FactorizeUnregularized
    \/ CheckInertia
    \/ Regularize
    \/ TestAssertions

RegSpec == InitReg /\ [][NextReg]_vars

\* ------------------------------------------------------------------ claims
\* what the claims say of a state, written out independently of the model's
\* own tests
GapClosed == LB + config.bound_tolerance >= UB
LimitHit == mip_iter >= config.iteration_limit
TimeUp == elapsed >= config.time_limit
\* a step that runs one of the two termination checks
CheckStep == pc \in {"pre_check", "post_check"} /\ pc' # pc
Stops(cond) == termination_condition' = cond /\ pc' = "after_loop"

\* C1: every termination check applies bound convergence, then the iteration
\* limit, then the time limit: the first of them that holds is the condition
\* recorded, and the check returns true (the loop is left).
C1_CheckPrecedence ==
    [][CheckStep =>
         /\ GapClosed => Stops("optimal")
         /\ (~GapClosed /\ LimitHit) => Stops("maxIterations")
         /\ (~GapClosed /\ ~LimitHit /\ TimeUp) => Stops("maxTimeLimit")]_vars

\* a check has just returned true with all three conditions holding at once
C1_Witness ==
    /\ pc = "after_loop"
    /\ last_iter_cuts = "False"
    /\ GapClosed /\ LimitHit /\ TimeUp
    /\ termination_condition = "optimal"

\* C2 as stated: a run that ends with mip_iter at the iteration limit and the
\* bounds apart has recorded maxIterations.
C2_Original ==
    (pc = "done" /\ LimitHit /\ ~GapClosed)
        => termination_condition = "maxIterations"

\* C2, amended: a termination check that runs with mip_iter at the iteration
\* limit and the bounds apart records maxIterations and leaves the loop; once
\* recorded, maxIterations is replaced only by bound_fix, by optimal, when the
\* corrected bounds meet.
C2_MaxIterationsRecorded ==
    [][/\ (CheckStep /\ LimitHit /\ ~GapClosed) => Stops("maxIterations")
       /\ (termination_condition = "maxIterations"
             /\ termination_condition' # "maxIterations")
            => /\ pc = "bound_fix_master" /\ pc' = "done"
               /\ termination_condition' = "optimal"
               /\ LB' + config.bound_tolerance >= UB']_vars

\* a run has ended with maxIterations recorded: limit reached, bounds apart
C2_Witness ==
    /\ pc = "done"
    /\ termination_condition = "maxIterations"
    /\ LimitHit /\ ~GapClosed
    /\ calls["solve_OA_master"] > 0

\* the master solution examined by the second check repeats the recorded one
SolutionRepeats ==
    /\ pc = "post_check" /\ pc' # pc
    /\ config.cycling_check /\ mip_iter >= 1
    /\ IntegerSolution(mip) = prev_int_sol
NoSubproblemSolve ==
    calls'["solve_NLP_subproblem"] = calls["solve_NLP_subproblem"]

\* C3 as stated: with cycling_check enabled and mip_iter >= 1, a master
\* solution whose rounded integer assignment equals the recorded one ends the
\* loop with feasible, and no NLP subproblem is solved afterwards, in the
\* loop or in the post-loop pass.
C3_Original ==
    [][/\ SolutionRepeats => Stops("feasible")
       /\ termination_condition = "feasible" => NoSubproblemSolve]_vars

\* C3, amended: when none of bound convergence, iteration limit and time
\* limit holds at the second check, a repeated integer assignment ends the
\* loop with feasible and last_iter_cuts = False; afterwards no master solve,
\* no callback and no subproblem solve happens in the loop, and the only
\* subproblem solve is the one bound_fix makes when add_nogood_cuts is active.
C3_CyclingStops ==
    [][/\ (SolutionRepeats /\ ~GapClosed /\ ~LimitHit /\ ~TimeUp)
            => (Stops("feasible") /\ last_iter_cuts' = "False")
       /\ termination_condition = "feasible"
            => /\ pc' \in {"after_loop", "bound_fix_nlp", "bound_fix_master",
                           "done", "KeyError"}
               /\ calls'["solve_OA_master"] = calls["solve_OA_master"]
               /\ calls'["call_after_subproblem_solve"]
                     = calls["call_after_subproblem_solve"]
               /\ ~NoSubproblemSolve
                     => (config.add_nogood_cuts /\ pc = "bound_fix_nlp")]_vars

\* a run has ended on a repeated integer assignment, after two master solves
C3_Witness ==
    /\ pc = "done"
    /\ termination_condition = "feasible"
    /\ curr_int_sol = prev_int_sol /\ prev_int_sol # <<>>
    /\ calls["solve_OA_master"] >= 2

NonDecreasing(s) == \A i \in 1..(Len(s) - 1) : s[i] <= s[i + 1]
NonIncreasing(s) == \A i \in 1..(Len(s) - 1) : s[i] >= s[i + 1]
\* s without the entry before its last one
WithoutDiscarded(s) ==
    IF Len(s) < 2 THEN s ELSE SubSeq(s, 1, Len(s) - 2) \o <<s[Len(s)]>>
BoundFixDone == calls["masteropt_solve"] > 0

\* C4 as stated: after every bound update, bound_fix's included, LB_progress
\* is non-decreasing and UB_progress is non-increasing.
C4_Original == NonDecreasing(LB_progress) /\ NonIncreasing(UB_progress)

\* C4, amended: both sequences are monotone until bound_fix updates the
\* optimistic bound; the entry bound_fix appends is at least (minimize; at
\* most, maximize) every entry before the last recorded one, which it
\* discards: the sequence is monotone with that discarded entry left out, and
\* the other sequence stays monotone.
C4_MonotoneUpToDiscardedEntry ==
    IF ~BoundFixDone
    THEN NonDecreasing(LB_progress) /\ NonIncreasing(UB_progress)
    ELSE IF sense = "minimize"
    THEN /\ NonDecreasing(WithoutDiscarded(LB_progress))
         /\ NonIncreasing(UB_progress)
    ELSE /\ NonDecreasing(LB_progress)
         /\ NonIncreasing(WithoutDiscarded(UB_progress))

\* bound_fix has appended a lower bound below the last recorded one, with an
\* earlier finite bound in the history it kept
C4_Witness ==
    /\ pc = "done" /\ BoundFixDone /\ sense = "minimize"
    /\ Len(LB_progress) >= 3
    /\ LB_progress[Len(LB_progress)] < LB_progress[Len(LB_progress) - 1]
    /\ LB_progress[Len(LB_progress)] = LB_progress[Len(LB_progress) - 2]
    /\ LB_progress[Len(LB_progress)] > NegInf

\* where the controller is once the loop is left, on the path without a
\* subproblem solve in bound_fix
AfterLoopNoSubproblem == {"after_loop", "bound_fix_master", "done", "KeyError"}

\* C5: an infeasible master ends the loop in its own cycle with
\* last_iter_cuts = True: no second check, no callback and no subproblem solve
\* follows in the loop, and bound_fix does not solve a subproblem either.
C5_InfeasibleMasterStops ==
    [][master_mip_results' = "infeasible"
         => /\ last_iter_cuts' = "True"
            /\ pc' \in AfterLoopNoSubproblem
            /\ NoSubproblemSolve
            /\ master_mip_results = "infeasible"
                 => calls'["solve_OA_master"] = calls["solve_OA_master"]]_vars

\* a run with an infeasible master has gone through bound_fix to its end
C5_Witness ==
    /\ pc = "done"
    /\ master_mip_results = "infeasible"
    /\ last_iter_cuts = "True"
    /\ config.add_nogood_cuts /\ BoundFixDone

Supported == config.strategy \in {"OA", "GOA"}
NoLoopSolve ==
    /\ calls["solve_OA_master"] = 0
    /\ calls["solve_NLP_subproblem"] = 0
    /\ calls["call_after_master_solve"] = 0
    /\ calls["call_after_subproblem_solve"] = 0

\* C6 as stated: with a strategy other than OA and GOA the run fails with
\* NotImplementedError: it never ends normally, and no solve is performed.
C6_Original ==
    ~Supported =>
        /\ pc # "done"
        /\ NoLoopSolve /\ calls["masteropt_solve"] = 0

\* C6, amended: with a strategy other than OA and GOA no master solve of the
\* loop, no subproblem solve and no callback ever happens, and the run raises
\* NotImplementedError exactly when the first cycle is entered
\* (mip_iter < iteration_limit) and its first check returns false; a
\* supported strategy never raises it.
C6_UnsupportedStrategy ==
    /\ Supported => pc # "NotImplementedError"
    /\ ~Supported =>
         /\ NoLoopSolve
         /\ pc \in {"while", "pre_check", "after_loop", "bound_fix_master"}
                      \cup FinalPcs
         /\ pc \in FinalPcs =>
              (pc = "NotImplementedError"
                 <=> (~LimitHit /\ last_iter_cuts = "unbound"))

\* an unsupported strategy has raised NotImplementedError in the first cycle
C6_Witness ==
    /\ pc = "NotImplementedError"
    /\ ~Supported
    /\ mip_iter < config.iteration_limit
    /\ termination_condition = "None"

InCallback(p) == IF pc = p THEN 1 ELSE 0
\* bound_fix has solved its subproblem
BoundFixSubproblemSolved ==
    /\ config.add_nogood_cuts /\ last_iter_cuts = "False"
    /\ pc \in {"bound_fix_master", "done", "KeyError"}

\* C7 as stated: every master solve (bound_fix's re-solve included) is
\* followed by exactly one call_after_master_solve and every subproblem solve
\* by exactly one call_after_subproblem_solve, whatever the result.
C7_Original ==
    /\ calls["call_after_master_solve"] + InCallback("master_callback")
          = calls["solve_OA_master"] + calls["masteropt_solve"]
    /\ calls["call_after_subproblem_solve"] + InCallback("nlp_callback")
          = calls["solve_NLP_subproblem"]

\* C7, amended: in the loop, every master solve whose result is not
\* infeasible is followed, as the next step, by exactly one
\* call_after_master_solve, and every subproblem solve by exactly one
\* call_after_subproblem_solve; an infeasible master, and the subproblem solve
\* and the master re-solve of bound_fix, are followed by no callback.
C7_CallbacksAfterLoopSolves ==
    /\ calls["call_after_master_solve"] + InCallback("master_callback")
          + (IF master_mip_results = "infeasible" THEN 1 ELSE 0)
          = calls["solve_OA_master"]
    /\ calls["call_after_subproblem_solve"] + InCallback("nlp_callback")
          + (IF BoundFixSubproblemSolved THEN 1 ELSE 0)
          = calls["solve_NLP_subproblem"]
    /\ pc = "master_callback" => master_mip_results \in {"optimal", "other"}

\* both callbacks have run, and bound_fix has made its two solves without one
C7_Witness ==
    /\ pc = "done" /\ BoundFixDone /\ BoundFixSubproblemSolved
    /\ master_mip_results = "other"
    /\ calls["call_after_master_solve"] >= 2
    /\ calls["call_after_subproblem_solve"] >= 1

\* the optimistic bound's progress sequence
Optimistic == IF sense = "minimize" THEN LB_progress ELSE UB_progress
Pessimistic == IF sense = "minimize" THEN UB_progress ELSE LB_progress
PassCompleted ==
    /\ calls["masteropt_solve"] = 1 /\ calls["deactivate"] = 1
    /\ \A i \in 1..Len(integer_cuts) : integer_cuts[i] <=> i < Len(integer_cuts)
    /\ Len(integer_cuts) >= 1

\* C8 as stated: the pass is performed exactly when add_nogood_cuts is active
\* and the last iteration contributed a cut (last_iter_cuts is True); when
\* performed it deactivates the most recent cut and re-solves the master once.
C8_Original ==
    pc = "done" =>
        /\ BoundFixDone <=> (config.add_nogood_cuts /\ last_iter_cuts = "True")
        /\ BoundFixDone => PassCompleted

\* C8, amended: a run that ends normally has performed the pass exactly when
\* add_nogood_cuts is active, whatever last_iter_cuts is (when it is False the
\* pass first solves one more subproblem); the pass has then deactivated the
\* most recent integer cut and no other, and re-solved the master exactly
\* once, and that step appended exactly one entry, the corrected bound, to the
\* optimistic progress sequence and none to the other.
C8_BoundFixPass ==
    /\ [](pc = "done" =>
            /\ BoundFixDone <=> config.add_nogood_cuts
            /\ BoundFixDone => PassCompleted
            /\ ~BoundFixDone => calls["deactivate"] = 0)
    /\ [][calls'["masteropt_solve"] # calls["masteropt_solve"]
            => /\ Optimistic' = Append(Optimistic,
                                       IF sense = "minimize" THEN LB' ELSE UB')
               /\ Pessimistic' = Pessimistic
               /\ pc = "bound_fix_master" /\ pc' = "done"]_vars

\* the pass has run after an exit that set last_iter_cuts = False
C8_Witness ==
    /\ pc = "done" /\ config.add_nogood_cuts
    /\ last_iter_cuts = "False"
    /\ BoundFixDone /\ PassCompleted
    /\ Len(integer_cuts) >= 2

LoopPcs == {"while", "pre_check", "solve_master", "master_callback",
            "post_check", "solve_nlp", "nlp_callback"}
\* the master solves the limit leaves room for: none when the counter has
\* already reached the limit on entry
MasterSolvesAllowed == Max2(0, config.iteration_limit - mip_iter0)

\* the master solves still to come at most, and the steps left in the cycle
\* counted from the master solve
MasterSolvesLeft == Max2(0, config.iteration_limit - mip_iter)
StepsLeftInCycle ==
    CASE pc = "master_callback" -> 7
      [] pc = "post_check"      -> 6
      [] pc = "solve_nlp"       -> 5
      [] pc = "nlp_callback"    -> 4
      [] pc = "while"           -> 3
      [] pc = "pre_check"       -> 2
      [] pc = "solve_master"    -> 1
      [] OTHER                  -> 0
LoopRank == IF pc \in LoopPcs THEN 8 * MasterSolvesLeft + StepsLeftInCycle ELSE 0

\* C9: the main loop performs at most iteration_limit - (initial mip_iter)
\* master solves (none when the counter starts at or above the limit), the
\* counter moves only by one per master solve, and the loop always
\* terminates: every step the controller takes in the loop lowers a measure
\* that is never negative, for every sequence of sub-solver outcomes, the
\* time limit reached or not.
C9_LoopTerminates ==
    /\ [](/\ calls["solve_OA_master"] <= MasterSolvesAllowed
          /\ mip_iter = mip_iter0 + calls["solve_OA_master"]
          /\ LoopRank >= 0)
    /\ [][(pc \in LoopPcs /\ <<pc, mip_iter, calls>>' # <<pc, mip_iter, calls>>)
            => LoopRank' < LoopRank]_vars

\* the loop has used every master solve the limit allows, the time limit not
\* reached, and has been left on the iteration limit
C9_Witness ==
    /\ pc = "after_loop"
    /\ elapsed < config.time_limit
    /\ termination_condition = "maxIterations"
    /\ MasterSolvesAllowed >= 2
    /\ calls["solve_OA_master"] = MasterSolvesAllowed

\* what config.mip_solver_args holds: its keys with the contents of the lists
\* they refer to
MipSolverArgs ==
    [k \in DOMAIN config.mip_solver_args |-> lists[config.mip_solver_args[k]]]

\* C10: no step changes the configuration, except that the entry of the
\* bound-correction pass writes zero_tolerance; in particular
\* config.mip_solver_args, the options it holds included, is left as it was.
C10_ConfigFrame ==
    [][/\ config' = IF pc = "after_loop" /\ pc' \in {"bound_fix_nlp",
                                                     "bound_fix_master"}
                    THEN [config EXCEPT !.zero_tolerance = ZeroToleranceBoundFix]
                    ELSE config
       /\ MipSolverArgs' = MipSolverArgs]_vars

\* the coefficient tried in the k-th regularized factorization (zero first)
RECURSIVE TriedCoef(_)
TriedCoef(k) == IF k = 0 THEN 0 ELSE IF k = 1 THEN 1 ELSE 100 * TriedCoef(k - 1)

SignatureMet == inertia.n_null = 0
                  /\ inertia.n_neg = n_eq_constraints + n_ineq_constraints

\* C11: factorize tries the coefficients 0, 1E-4, 1E-2, ... in this order, goes
\* on to the next one only when the inertia reported for the current one is
\* wrong, and returns only when it is correct: the coefficient returned is
\* the first of the sequence with the correct inertia, and after the return
\* the linear solver's inertia has no null eigenvalue and
\* n_eq_constraints + n_ineq_constraints negative ones.
C11_MinimalCoefficient ==
    /\ [](ip_pc \in {"check_inertia", "regularize", "returned", "tested"}
            => reg_coef = TriedCoef(reg_iter))
    /\ [](ip_pc \in {"returned", "tested"} => SignatureMet)
    /\ [][/\ reg_iter' # reg_iter => ~SignatureMet /\ reg_iter' = reg_iter + 1
          /\ ip_pc = "check_inertia" /\ SignatureMet => ip_pc' = "returned"
          /\ ip_pc \in {"returned", "tested"}
               => UNCHANGED <<reg_coef, reg_iter, inertia>>]_vars

\* the case of the test: the unregularized matrix has the wrong inertia and
\* the first regularized one the right one, with constraints of both kinds
C11_Witness ==
    /\ ip_pc = "tested"
    /\ test_result = "pass"
    /\ reg_iter = 1 /\ reg_coef = 1
    /\ n_eq_constraints > 0 /\ n_ineq_constraints > 0

\* C13: a master result that is neither optimal nor infeasible, and a
\* subproblem result that is neither optimal, locallyOptimal nor infeasible,
\* does not stop the loop: the step that receives it records no termination
\* condition and assigns no last_iter_cuts, the callback follows, and then
\* the second termination check (master) or the next cycle (subproblem).
C13_OtherConditionContinues ==
    [][/\ pc = "solve_master" /\ master_mip_results' = "other"
          => /\ pc' = "master_callback"
             /\ UNCHANGED <<termination_condition, last_iter_cuts>>
       /\ pc = "master_callback" /\ master_mip_results = "other"
          => /\ pc' = "post_check"
             /\ calls'["call_after_master_solve"]
                   = calls["call_after_master_solve"] + 1
       /\ pc = "solve_nlp" /\ fixed_nlp_result' = "other"
          => /\ pc' = "nlp_callback"
             /\ UNCHANGED <<termination_condition, last_iter_cuts>>
       /\ pc = "nlp_callback" /\ fixed_nlp_result = "other"
          => /\ pc' = "while"
             /\ calls'["call_after_subproblem_solve"]
                   = calls["call_after_subproblem_solve"] + 1]_vars

\* a cycle whose master and subproblem both returned another condition has
\* been completed, and the next cycle has solved its master
C13_Witness ==
    /\ pc = "master_callback"
    /\ master_mip_results = "other" /\ fixed_nlp_result = "other"
    /\ calls["solve_OA_master"] = 2
    /\ calls["call_after_master_solve"] = 1
    /\ calls["call_after_subproblem_solve"] = 1

SubproblemSolves == calls["solve_NLP_subproblem"]

\* C14 as stated: in single-tree mode the subproblem is never solved at any
\* point of a solve.
C14_Original == config.single_tree => SubproblemSolves = 0

\* C14, amended: in single-tree mode the loop never solves the subproblem;
\* the only subproblem solve of such a run is the one the bound-correction
\* pass makes when the loop was left at the second check (last_iter_cuts
\* False).  Without single-tree mode every cycle that passes the second
\* check solves the subproblem next, exactly once, and no other step of the
\* loop solves it.
C14_SingleTree ==
    /\ [](config.single_tree
            => /\ pc \notin {"solve_nlp", "nlp_callback"}
               /\ SubproblemSolves = IF BoundFixSubproblemSolved THEN 1 ELSE 0)
    /\ [][/\ pc = "post_check" /\ pc' \notin {"post_check", "after_loop"}
             => pc' = IF config.single_tree THEN "while" ELSE "solve_nlp"
          /\ pc = "solve_nlp"
             => SubproblemSolves' = SubproblemSolves + 1 /\ pc' = "nlp_callback"
          /\ SubproblemSolves' # SubproblemSolves
             => pc \in {"solve_nlp", "bound_fix_nlp"}
          /\ pc' = "solve_nlp" => pc = "post_check"]_vars

\* a single-tree run has passed the second check, has gone round the loop
\* without a subproblem solve, and has ended after the bound-correction pass
\* made one
C14_Witness ==
    /\ pc = "done"
    /\ config.single_tree
    /\ calls["solve_OA_master"] >= 2
    /\ BoundFixSubproblemSolved /\ SubproblemSolves = 1

\* C15: once the loop is left with add_nogood_cuts active, last_iter_cuts has
\* been assigned, so bound_fix is never called with it undefined.
C15_LastIterCutsAssigned ==
    (config.add_nogood_cuts /\ pc \notin LoopPcs)
        => (last_iter_cuts # "unbound" /\ pc # "UnboundLocalError")

\* C16: in every final state of a solve, termination_condition = optimal
\* implies LB + bound_tolerance >= UB for the final bounds.
C16_OptimalMeansConverged ==
    (pc = "done" /\ termination_condition = "optimal") => GapClosed

\* C17: whenever the bound-correction pass is about to deactivate the last
\* integer cut, at least one integer cut exists, and the lookup never fails.
C17_CutExists ==
    /\ pc = "bound_fix_master" => Len(integer_cuts) >= 1
    /\ pc # "KeyError"

InBoundFix == pc \in {"bound_fix_nlp", "bound_fix_master"}

\* C18: no step of the bound-correction pass changes termination_condition,
\* except that the step after the master re-solve sets it to optimal exactly
\* when LB + bound_tolerance >= UB holds for the corrected bounds; otherwise
\* the condition the loop recorded stays.  The master re-solve step changes
\* neither mip_iter nor prev_int_sol nor the pessimistic bound or its
\* progress sequence.
C18_BoundFixFrame ==
    [][InBoundFix =>
         /\ termination_condition' =
               IF pc = "bound_fix_master" /\ pc' = "done" /\ GapClosed'
               THEN "optimal" ELSE termination_condition
         /\ pc = "bound_fix_master"
              => /\ UNCHANGED <<mip_iter, prev_int_sol, curr_int_sol>>
                 /\ Pessimistic' = Pessimistic
                 /\ IF sense = "minimize" THEN UB' = UB ELSE LB' = LB]_vars

\* the pass has run on bounds that do not meet, and the iteration limit the
\* loop recorded is still the termination condition
C18_Witness ==
    /\ pc = "done" /\ BoundFixDone
    /\ ~GapClosed
    /\ termination_condition = "maxIterations"
    /\ last_iter_cuts = "False"

\* the entries of the optimistic progress sequence the pass kept: all
\* recorded before it but the last one
KeptEntries ==
    {Optimistic[i] : i \in 1..(Len(Optimistic) - 2)}
DiscardedEntry == Optimistic[Len(Optimistic) - 1]
CorrectedBound == IF sense = "minimize" THEN LB ELSE UB
Candidates == {masteropt_bound[1]} \cup KeptEntries

\* C19: after the pass, for minimize LB is the greatest of the re-solved
\* master's lower bound and the entries LB_progress had before the pass
\* except the last one, and is the entry the pass appended; for maximize UB
\* is the least of the master's upper bound and those entries of
\* UB_progress.  The corrected bound is thus never worse than a kept entry.
C19_CorrectedBound ==
    (pc = "done" /\ BoundFixDone) =>
        /\ Len(Optimistic) >= 2
        /\ CorrectedBound = Last(Optimistic)
        /\ CorrectedBound \in Candidates
        /\ \A c \in Candidates :
              IF sense = "minimize" THEN CorrectedBound >= c
                                    ELSE CorrectedBound <= c

\* a maximization whose last recorded upper bound was better than the one
\* the pass ends with: it was discarded, and the corrected bound is one
\* recorded earlier
C19_Witness ==
    /\ pc = "done" /\ BoundFixDone /\ sense = "maximize"
    /\ Len(UB_progress) >= 3
    /\ DiscardedEntry < UB
    /\ UB \in KeptEntries /\ UB < PosInf

====
